---------------------------- MODULE Spec2Model ----------------------------
(***************************************************************************)
(* Model of fastlane_bot/events/pools/bancor_v2.py: the BancorV2Pool       *)
(* variant.  A pool keeps one dictionary, self.state; the two update       *)
(* operations update_from_event and update_from_contract read it, write    *)
(* it field by field and return a delta (a dictionary).                    *)
(*                                                                         *)
(* A Python dict is a TLA+ function whose DOMAIN is the set of keys that   *)
(* are present; d[k] on an absent key raises KeyError.                     *)
(***************************************************************************)
EXTENDS Integers, Sequences, FiniteSets, TLC

VARIABLES
    state,   \* self.state, the pool's store
    pre,     \* the store as it was when the last call started
    call,    \* the last call: operation and inputs
    ret,     \* how the last call ended: outcome, KeyError key, delta, reads made
    prev,    \* what the call before returned, kept when the last call repeated it
    ncalls,  \* number of calls made on the pool
    done,    \* the update operations that have returned a delta so far
    race     \* two calls in progress on one pool: where each is, and its locals

vars == <<state, pre, call, ret, prev, ncalls, done, race>>

---------------------------------------------------------------------------
(* Bounds *)

\* at most this many calls are made on the pool
MaxCalls == 2

---------------------------------------------------------------------------
(* Values *)

\* fee / 1e6 (line 93): the divisor
FeeScale == 1000000

EmptyDict == [k \in {} |-> 0]

Tokens == {"0xA", "0xB"}

\* reserveBalances(): the pairs a contract reports
Reserves == {<<100, 200>>, <<200, 100>>}

\* (_rateN, _rateD): the pairs an event carries
Rates == {<<150, 250>>, <<250, 150>>}

Fees == {0, 3000}

Anchors == {"0xAnchor1", "0xAnchor2"}

EventKeys == {"_token1", "_token2", "_rateN", "_rateD"}

\* the fields of the store the two operations touch, and one they never name
StoreKeys ==
    {"address", "exchange_name", "tkn0_address", "tkn1_address",
     "tkn0_balance", "tkn1_balance", "fee", "fee_float", "anchor", "cid"}

SeedKeys == StoreKeys \cup {"last_updated_block"}

RECURSIVE GCD(_, _)
GCD(a, b) == IF b = 0 THEN a ELSE GCD(b, a % b)

\* fee / 1e6 (line 93): Python true division, kept as the exact quotient in
\* lowest terms
TrueDiv(a, b) ==
    LET g == GCD(a, b) IN [num |-> a \div g, den |-> b \div g]

\* the value a caller's seed carries for a key: of the key's type, and
\* different from every value the store, the events and the contract supply
SeedValue(k) ==
    CASE k \in {"tkn0_balance", "tkn1_balance"} -> 999
      [] k = "fee" -> 777
      [] k = "fee_float" -> TrueDiv(777, FeeScale)
      [] k = "last_updated_block" -> 17
      [] k = "cid" -> "seed_cid"
      [] k = "exchange_name" -> "seed_exchange"
      [] OTHER -> "0xSeed"

\* the key sets of the seeds handed in: none, each key alone, the seed a
\* driver passes along, and one that supplies what a contract read would
SeedKeySets ==
    {{}} \cup {{k} : k \in SeedKeys}
         \cup {{"cid", "last_updated_block"}, {"anchor", "fee", "fee_float"}}

\* data: the caller-supplied seed mappings
Seeds == { [k \in K |-> SeedValue(k)] : K \in SeedKeySets }

\* event["args"] with all four arguments
FullArgs ==
    { ("_token1" :> t1) @@ ("_token2" :> t2) @@ ("_rateN" :> r[1]) @@ ("_rateD" :> r[2]) :
        t1 \in Tokens, t2 \in Tokens, r \in Rates }

Restrict(f, S) == [k \in S |-> f[k]]

\* event["args"] of the events handed in: complete, or one argument absent
\* from an event whose tokens are in the pool's order or in the other order
EventArgs ==
    FullArgs \cup
    { Restrict(a, EventKeys \ {k}) :
        a \in {f \in FullArgs : f["_rateN"] < f["_rateD"]
                                 /\ f["_token1"] # f["_token2"]},
        k \in EventKeys }

\* what one contract read gives back: a value, or the call raises
Ok(v) == [ok |-> TRUE, val |-> v]

Raises(v) == [ok |-> FALSE, val |-> v]

\* contract.caller: the results of reserveBalances(), conversionFee(), anchor()
Contracts ==
    [ reserveBalances : {Ok(r) : r \in Reserves} \cup {Raises(<<0, 0>>)},
      conversionFee   : {Ok(f) : f \in Fees} \cup {Raises(0)},
      anchor          : {Ok(a) : a \in Anchors} \cup {Raises("")} ]

NoContract ==
    [reserveBalances |-> Raises(<<0, 0>>), conversionFee |-> Raises(0),
     anchor |-> Raises("")]

---------------------------------------------------------------------------
(* The store after construction *)

\* what the driver knows of a pool before any contract read
PoolInfo ==
    ("address" :> "0xPool") @@ ("exchange_name" :> "bancor_v2") @@
    ("tkn0_address" :> "0xA") @@ ("tkn1_address" :> "0xB") @@ ("cid" :> "p1")

\* a pool whose state the driver filled in completely
Populated ==
    PoolInfo @@ ("tkn0_balance" :> 100) @@ ("tkn1_balance" :> 200) @@
    ("fee" :> 3000) @@ ("fee_float" :> TrueDiv(3000, FeeScale)) @@
    ("anchor" :> "0xAnchor1")

InitStates == {EmptyDict, PoolInfo, Populated}

---------------------------------------------------------------------------
(* Results *)

NoKey == ""

\* return: the store as the call leaves it, the delta handed back, the
\* contract reads the call made
Returned(s, delta, reads) ==
    [state |-> s, outcome |-> "returned", key |-> NoKey, delta |-> delta,
     reads |-> reads]

\* d[k] with k absent
KeyError(s, k, reads) ==
    [state |-> s, outcome |-> "KeyError", key |-> k, delta |-> EmptyDict,
     reads |-> reads]

\* a contract read raised and the exception was caught and dropped
SwallowedFailure(s, reads) == Returned(s, EmptyDict, reads)

\* lines 88, 89, 96: a contract read raised, and nothing catches it
ContractCallFailure(s, reads) ==
    [state |-> s, outcome |-> "ContractCallFailure", key |-> NoKey,
     delta |-> EmptyDict, reads |-> reads]

---------------------------------------------------------------------------
(* event_matches_format, lines 31-48 *)

\* a matcher that asks for an argument no Bancor v2 event has
MatchesOtherFormat(args) == "newLiquidity" \in DOMAIN args

\* lines 47-48: "_rateN" in event["args"]
event_matches_format(args) == "_rateN" \in DOMAIN args

\* event["args"] of the events handed to the matcher: those handed to
\* update_from_event, the same with an unrelated argument added, and none
MatcherArgs ==
    EventArgs \cup {("blockNumber" :> 17) @@ a : a \in EventArgs}
              \cup {EmptyDict, ("blockNumber" :> 17)}

---------------------------------------------------------------------------
(* update_from_event, lines 50-82 *)

\* tkn0 = self.state.get("tkn0_address", ""), and the same for tkn1: a
\* default in place of the KeyError
ReadTokensDefault(s) ==
    [key |-> NoKey,
     tkn0 |-> IF "tkn0_address" \in DOMAIN s THEN s["tkn0_address"] ELSE "",
     tkn1 |-> IF "tkn1_address" \in DOMAIN s THEN s["tkn1_address"] ELSE ""]

\* lines 56-57: tkn0 = self.state["tkn0_address"]; tkn1 = self.state["tkn1_address"].
\* key is the absent key the read raised KeyError on, if any
ReadTokens(s) ==
    IF "tkn0_address" \notin DOMAIN s
    THEN [key |-> "tkn0_address", tkn0 |-> "", tkn1 |-> ""]
    ELSE IF "tkn1_address" \notin DOMAIN s
    THEN [key |-> "tkn1_address", tkn0 |-> "", tkn1 |-> ""]
    ELSE [key |-> NoKey, tkn0 |-> s["tkn0_address"], tkn1 |-> s["tkn1_address"]]

\* the condition with a misspelt argument name, _token0
MatchKeyErrorTypo(args, tkn0) ==
    IF "_token0" \notin DOMAIN args THEN "_token0"
    ELSE IF args["_token1"] = tkn0 /\ "_token2" \notin DOMAIN args THEN "_token2"
    ELSE NoKey

\* line 67: the event argument the condition raises KeyError on, if any.
\* `and` does not read _token2 when the first comparison is false
MatchKeyError(args, tkn0) ==
    IF "_token1" \notin DOMAIN args THEN "_token1"
    ELSE IF args["_token1"] = tkn0 /\ "_token2" \notin DOMAIN args THEN "_token2"
    ELSE NoKey

\* line 67: event_args["_token1"] == tkn0 and event_args["_token2"] == tkn1
Matches(args, tkn0, tkn1) ==
    args["_token1"] = tkn0 /\ args["_token2"] = tkn1

\* the two rates the wrong way round
SwappedBalances(args) ==
    ("tkn0_balance" :> args["_rateD"]) @@ ("tkn1_balance" :> args["_rateN"])

\* lines 68-69: the balances of a matching event
MatchedBalances(args) ==
    ("tkn0_balance" :> args["_rateN"]) @@ ("tkn1_balance" :> args["_rateD"])

\* lines 71-72: the balances of a non-matching event; both are read from
\* self.state["tkn0_balance"]
UnmatchedBalances(s) ==
    ("tkn0_balance" :> s["tkn0_balance"]) @@ ("tkn1_balance" :> s["tkn0_balance"])

\* lines 77-81, in the order they are read
IdentityKeys == <<"anchor", "cid", "fee", "fee_float", "exchange_name">>

\* the first key of keys, from position i on, that d does not hold
RECURSIVE FirstAbsent(_, _, _)
FirstAbsent(d, keys, i) ==
    IF i > Len(keys) THEN NoKey
    ELSE IF keys[i] \notin DOMAIN d THEN keys[i]
    ELSE FirstAbsent(d, keys, i + 1)

\* a write that keeps the value the store already holds
WriteAbsentOnly(s, d) == s @@ d

\* self.state = data: the store replaced instead of updated
WriteReplace(s, d) == d

\* lines 74-75: for key, value in data.items(): self.state[key] = value
WriteAll(s, d) == d @@ s

\* the identity fields taken from the store as it was before the write
WriteAndDescribeStale(s, data) ==
    LET s2 == WriteAll(s, data)
        k  == FirstAbsent(s2, IdentityKeys, 1)
    IN  IF k # NoKey
        THEN KeyError(s2, k, <<>>)
        ELSE Returned(s2,
                      [x \in {IdentityKeys[i] : i \in 1..Len(IdentityKeys)} |->
                          IF x \in DOMAIN s THEN s[x] ELSE s2[x]]
                          @@ data,
                      <<>>)

\* lines 74-82: write data to the store, then read the identity fields back
\* from the store into data and return it
WriteAndDescribe(s, data) ==
    LET s2 == WriteAll(s, data)
        k  == FirstAbsent(s2, IdentityKeys, 1)
    IN  IF k # NoKey
        THEN KeyError(s2, k, <<>>)
        ELSE Returned(s2,
                      [x \in {IdentityKeys[i] : i \in 1..Len(IdentityKeys)} |-> s2[x]]
                          @@ data,
                      <<>>)

\* lines 56-82.  args is event_args["args"] (line 59).  data is the caller's
\* dict: the balances are assigned into it (68-72), it is written to the
\* store (74-75) and, with the identity fields added (77-81), it is the
\* delta returned (82)
update_from_event(s, args, data) ==
    LET tk == ReadTokens(s) IN
    IF tk.key # NoKey THEN KeyError(s, tk.key, <<>>)
    ELSE IF MatchKeyError(args, tk.tkn0) # NoKey
    THEN KeyError(s, MatchKeyError(args, tk.tkn0), <<>>)
    ELSE IF Matches(args, tk.tkn0, tk.tkn1)
    THEN IF "_rateN" \notin DOMAIN args THEN KeyError(s, "_rateN", <<>>)
         ELSE IF "_rateD" \notin DOMAIN args THEN KeyError(s, "_rateD", <<>>)
         ELSE WriteAndDescribe(s, MatchedBalances(args) @@ data)
    ELSE IF "tkn0_balance" \notin DOMAIN s THEN KeyError(s, "tkn0_balance", <<>>)
         ELSE WriteAndDescribe(s, UnmatchedBalances(s) @@ data)

---------------------------------------------------------------------------
(* update_from_contract, lines 84-102 *)

\* balances added to the ones the store holds instead of replacing them
ContractParamsIncremental(s, r0, r1, fee, anchor) ==
    ("fee" :> fee) @@ ("fee_float" :> TrueDiv(fee, FeeScale)) @@
    ("exchange_name" :> s["exchange_name"]) @@ ("address" :> s["address"]) @@
    ("anchor" :> anchor) @@
    ("tkn0_balance" :>
        r0 + (IF "tkn0_balance" \in DOMAIN s THEN s["tkn0_balance"] ELSE 0)) @@
    ("tkn1_balance" :>
        r1 + (IF "tkn1_balance" \in DOMAIN s THEN s["tkn1_balance"] ELSE 0))

\* balances left as the store holds them when it holds any
ContractParamsStale(s, r0, r1, fee, anchor) ==
    ("fee" :> fee) @@ ("fee_float" :> TrueDiv(fee, FeeScale)) @@
    ("exchange_name" :> s["exchange_name"]) @@ ("address" :> s["address"]) @@
    ("anchor" :> anchor) @@
    ("tkn0_balance" :> IF "tkn0_balance" \in DOMAIN s THEN s["tkn0_balance"] ELSE r0) @@
    ("tkn1_balance" :> IF "tkn1_balance" \in DOMAIN s THEN s["tkn1_balance"] ELSE r1)

\* the pool's address taken from the contract's anchor
ContractParamsAnchorAddress(s, r0, r1, fee, anchor) ==
    ("fee" :> fee) @@ ("fee_float" :> TrueDiv(fee, FeeScale)) @@
    ("exchange_name" :> s["exchange_name"]) @@ ("address" :> anchor) @@
    ("anchor" :> anchor) @@
    ("tkn0_balance" :> r0) @@ ("tkn1_balance" :> r1)

\* params without the anchor
ContractParamsNoAnchor(s, r0, r1, fee, anchor) ==
    ("fee" :> fee) @@ ("fee_float" :> TrueDiv(fee, FeeScale)) @@
    ("exchange_name" :> s["exchange_name"]) @@ ("address" :> s["address"]) @@
    ("tkn0_balance" :> r0) @@ ("tkn1_balance" :> r1)

\* the fee taken as a percentage: fee / 100
ContractParamsFeePercent(s, r0, r1, fee, anchor) ==
    ("fee" :> fee) @@ ("fee_float" :> TrueDiv(fee, 100)) @@
    ("exchange_name" :> s["exchange_name"]) @@ ("address" :> s["address"]) @@
    ("anchor" :> anchor) @@
    ("tkn0_balance" :> r0) @@ ("tkn1_balance" :> r1)

\* exchange_name taken from the class attribute (line 22), not from the store
ContractParamsClassName(s, r0, r1, fee, anchor) ==
    ("fee" :> fee) @@ ("fee_float" :> TrueDiv(fee, FeeScale)) @@
    ("exchange_name" :> "bancor_v2") @@ ("address" :> s["address"]) @@
    ("anchor" :> anchor) @@
    ("tkn0_balance" :> r0) @@ ("tkn1_balance" :> r1)

\* lines 91-99: params
ContractParams(s, r0, r1, fee, anchor) ==
    ("fee" :> fee) @@ ("fee_float" :> TrueDiv(fee, FeeScale)) @@
    ("exchange_name" :> s["exchange_name"]) @@ ("address" :> s["address"]) @@
    ("anchor" :> anchor) @@
    ("tkn0_balance" :> r0) @@ ("tkn1_balance" :> r1)

\* lines 88-102.  The dict display of lines 91-99 evaluates its values in
\* order: the two store reads come before contract.caller.anchor()
update_from_contract(s, c) ==
    IF ~c.reserveBalances.ok
    THEN ContractCallFailure(s, <<"reserveBalances">>)
    ELSE IF ~c.conversionFee.ok
    THEN ContractCallFailure(s, <<"reserveBalances", "conversionFee">>)
    ELSE IF "exchange_name" \notin DOMAIN s
    THEN KeyError(s, "exchange_name", <<"reserveBalances", "conversionFee">>)
    ELSE IF "address" \notin DOMAIN s
    THEN KeyError(s, "address", <<"reserveBalances", "conversionFee">>)
    ELSE IF ~c.anchor.ok
    THEN ContractCallFailure(s, <<"reserveBalances", "conversionFee", "anchor">>)
    ELSE LET params == ContractParams(s, c.reserveBalances.val[1],
                                      c.reserveBalances.val[2],
                                      c.conversionFee.val, c.anchor.val)
         IN  Returned(WriteAll(s, params), params,
                      <<"reserveBalances", "conversionFee", "anchor">>)

---------------------------------------------------------------------------
(* The pool under a driver that makes one call at a time *)

NoCall ==
    [op |-> "none", args |-> EmptyDict, data |-> EmptyDict, contract |-> NoContract]

\* no second call in progress
NoRace ==
    [serialized |-> TRUE, epc |-> "none", cpc |-> "none", edata |-> EmptyDict,
     ekeys |-> <<>>, cparams |-> EmptyDict, ckeys |-> <<>>]

NoRet ==
    [outcome |-> "none", key |-> NoKey, delta |-> EmptyDict, reads |-> <<>>,
     matched |-> FALSE, result |-> FALSE]

\* the line-67 branch the call took, for a call that got that far
TookMatch(s, args) ==
    /\ ReadTokens(s).key = NoKey
    /\ MatchKeyError(args, ReadTokens(s).tkn0) = NoKey
    /\ Matches(args, ReadTokens(s).tkn0, ReadTokens(s).tkn1)

Record(c, r, m) ==
    /\ pre' = state
    /\ state' = r.state
    /\ call' = c
    /\ ret' = [outcome |-> r.outcome, key |-> r.key, delta |-> r.delta,
               reads |-> r.reads, matched |-> m, result |-> FALSE]
    /\ prev' = IF c = call /\ ret.outcome = "returned" THEN ret ELSE NoRet
    /\ ncalls' = ncalls + 1
    /\ done' = IF r.outcome = "returned" THEN done \cup {c.op} ELSE done
    /\ UNCHANGED race

Init ==
    /\ state \in InitStates
    /\ pre = state
    /\ call = NoCall
    /\ ret = NoRet
    /\ prev = NoRet
    /\ ncalls = 0
    /\ done = {}
    /\ race = NoRace

UpdateFromEvent ==
    /\ ncalls < MaxCalls
    /\ \E args \in EventArgs, data \in Seeds :
          Record([op |-> "update_from_event", args |-> args, data |-> data,
                  contract |-> NoContract],
                 update_from_event(state, args, data),
                 TookMatch(state, args))

UpdateFromContract ==
    /\ ncalls < MaxCalls
    /\ \E c \in Contracts :
          Record([op |-> "update_from_contract", args |-> EmptyDict,
                  data |-> EmptyDict, contract |-> c],
                 update_from_contract(state, c),
                 FALSE)

\* the classmethod reads its argument only; it has no access to a pool
EventMatchesFormat ==
    /\ ncalls < MaxCalls
    /\ \E args \in MatcherArgs :
          /\ call' = [op |-> "event_matches_format", args |-> args,
                      data |-> EmptyDict, contract |-> NoContract]
          /\ ret' = [outcome |-> "returned", key |-> NoKey, delta |-> EmptyDict,
                     reads |-> <<>>, matched |-> FALSE,
                     result |-> event_matches_format(args)]
    /\ pre' = state
    /\ prev' = NoRet
    /\ ncalls' = ncalls + 1
    /\ UNCHANGED <<state, done, race>>

Next == UpdateFromEvent \/ UpdateFromContract \/ EventMatchesFormat

Spec == Init /\ [][Next]_vars

TypeOK ==
    /\ DOMAIN state \subseteq SeedKeys
    /\ ret.outcome \in {"none", "returned", "KeyError", "ContractCallFailure"}
    /\ ncalls \in 0..MaxCalls

---------------------------------------------------------------------------
(* One update_from_event call and one update_from_contract call on the     *)
(* same pool, each taken statement by statement.  A driver that serializes *)
(* lets a call start only when the other has not started or has returned.  *)

\* self.state[key] = value (lines 75 and 101), one key
WriteKey(s, k, v) == (k :> v) @@ s

\* the order in which data.items() yields the keys: the seed's keys, then
\* the balances lines 68-72 added
DataOrder ==
    <<"address", "exchange_name", "tkn0_address", "tkn1_address", "cid",
      "last_updated_block", "anchor", "fee", "fee_float",
      "tkn0_balance", "tkn1_balance">>

\* the order in which params.items() yields the keys (lines 92-98)
ParamOrder ==
    <<"fee", "fee_float", "exchange_name", "address", "anchor",
      "tkn0_balance", "tkn1_balance">>

KeysInOrder(order, d) ==
    LET Held(k) == k \in DOMAIN d IN SelectSeq(order, Held)

\* the contracts whose three reads return
GoodContracts == {c \in Contracts : c.reserveBalances.ok /\ c.conversionFee.ok /\ c.anchor.ok}

InitRace ==
    /\ state = Populated
    /\ pre = state
    /\ \E args \in FullArgs, data \in Seeds, c \in GoodContracts :
          call = [op |-> "race", args |-> args, data |-> data, contract |-> c]
    /\ ret = NoRet
    /\ prev = NoRet
    /\ ncalls = 0
    /\ done = {}
    /\ \E b \in BOOLEAN :
          race = [serialized |-> b, epc |-> "start", cpc |-> "start",
                  edata |-> EmptyDict, ekeys |-> <<>>,
                  cparams |-> EmptyDict, ckeys |-> <<>>]

\* the driver's rule: under serialization a call starts only while the
\* other call is not in progress
MayStart(otherPc) == race.serialized => otherPc \in {"start", "done"}

\* lines 56-69: read the pair, compare, and for a matching event set the
\* balances in data
EventRead ==
    /\ race.epc = "start"
    /\ MayStart(race.cpc)
    /\ IF Matches(call.args, state["tkn0_address"], state["tkn1_address"])
       THEN race' = [race EXCEPT
                       !.epc = "write",
                       !.edata = MatchedBalances(call.args) @@ call.data,
                       !.ekeys = KeysInOrder(DataOrder,
                                     MatchedBalances(call.args) @@ call.data)]
       ELSE race' = [race EXCEPT !.epc = "line71", !.edata = call.data]
    /\ UNCHANGED <<state, pre, call, ret, prev, ncalls, done>>

\* line 71: data["tkn0_balance"] = self.state["tkn0_balance"]
EventRead71 ==
    /\ race.epc = "line71"
    /\ race' = [race EXCEPT
                  !.epc = "line72",
                  !.edata = ("tkn0_balance" :> state["tkn0_balance"]) @@ race.edata]
    /\ UNCHANGED <<state, pre, call, ret, prev, ncalls, done>>

\* line 72: data["tkn1_balance"] = self.state["tkn0_balance"]
EventRead72 ==
    /\ race.epc = "line72"
    /\ LET d == ("tkn1_balance" :> state["tkn0_balance"]) @@ race.edata
       IN  race' = [race EXCEPT !.epc = "write", !.edata = d,
                                !.ekeys = KeysInOrder(DataOrder, d)]
    /\ UNCHANGED <<state, pre, call, ret, prev, ncalls, done>>

\* lines 74-75, one turn of the loop
EventWrite ==
    /\ race.epc = "write"
    /\ race.ekeys # <<>>
    /\ state' = WriteKey(state, Head(race.ekeys), race.edata[Head(race.ekeys)])
    /\ race' = [race EXCEPT !.ekeys = Tail(race.ekeys)]
    /\ UNCHANGED <<pre, call, ret, prev, ncalls, done>>

\* lines 77-82, after the loop
EventDescribe ==
    /\ race.epc = "write"
    /\ race.ekeys = <<>>
    /\ race' = [race EXCEPT
                  !.epc = "done",
                  !.edata = [x \in {IdentityKeys[i] : i \in 1..Len(IdentityKeys)}
                                |-> state[x]] @@ race.edata]
    /\ done' = done \cup {"update_from_event"}
    /\ UNCHANGED <<state, pre, call, ret, prev, ncalls>>

\* lines 88-99: the contract reads and params
ContractRead ==
    /\ race.cpc = "start"
    /\ MayStart(race.epc)
    /\ LET c == call.contract
           p == ContractParams(state, c.reserveBalances.val[1],
                               c.reserveBalances.val[2],
                               c.conversionFee.val, c.anchor.val)
       IN  race' = [race EXCEPT !.cpc = "write", !.cparams = p,
                                !.ckeys = KeysInOrder(ParamOrder, p)]
    /\ UNCHANGED <<state, pre, call, ret, prev, ncalls, done>>

\* lines 100-101, one turn of the loop
ContractWrite ==
    /\ race.cpc = "write"
    /\ race.ckeys # <<>>
    /\ state' = WriteKey(state, Head(race.ckeys), race.cparams[Head(race.ckeys)])
    /\ race' = [race EXCEPT !.ckeys = Tail(race.ckeys)]
    /\ UNCHANGED <<pre, call, ret, prev, ncalls, done>>

\* line 102
ContractReturn ==
    /\ race.cpc = "write"
    /\ race.ckeys = <<>>
    /\ race' = [race EXCEPT !.cpc = "done"]
    /\ done' = done \cup {"update_from_contract"}
    /\ UNCHANGED <<state, pre, call, ret, prev, ncalls>>

NextRace ==
    \/ EventRead \/ EventRead71 \/ EventRead72 \/ EventWrite \/ EventDescribe
    \/ ContractRead \/ ContractWrite \/ ContractReturn

SpecRace == InitRace /\ [][NextRace]_vars

---------------------------------------------------------------------------
(* Properties *)

EventCall == call.op = "update_from_event"

ContractCall == call.op = "update_from_contract"

Returns == ret.outcome = "returned"

\* the store held every field the two operations read when the call started
Initialized(s) == StoreKeys \subseteq DOMAIN s

\* the event's (_token1, _token2) is, in order, the pair the store held
PairMatches(args, s) ==
    /\ {"_token1", "_token2"} \subseteq DOMAIN args
    /\ {"tkn0_address", "tkn1_address"} \subseteq DOMAIN s
    /\ args["_token1"] = s["tkn0_address"]
    /\ args["_token2"] = s["tkn1_address"]

\* C1: for an initialized pool and an event whose token pair is not, in
\* order, the pool's pair, update_from_event leaves tkn0_balance and
\* tkn1_balance of the store at their pre-call values and returns those
\* pre-call values in the delta.
C1_NonMatchingKeepsBalances ==
    (EventCall /\ Returns /\ Initialized(pre) /\ ~PairMatches(call.args, pre))
    => /\ state["tkn0_balance"] = pre["tkn0_balance"]
       /\ state["tkn1_balance"] = pre["tkn1_balance"]
       /\ ret.delta["tkn0_balance"] = pre["tkn0_balance"]
       /\ ret.delta["tkn1_balance"] = pre["tkn1_balance"]

\* C2: for an initialized pool with pair (A, B) and an event with
\* _token1 = A and _token2 = B, update_from_event sets tkn0_balance to the
\* event's _rateN and tkn1_balance to its _rateD, in the store and in the
\* returned delta, and the delta's cid is the pool's cid (the cid the store
\* holds, which is the one it held before unless the seed carried a cid).
C2_MatchingSetsBalances ==
    (EventCall /\ Returns /\ Initialized(pre) /\ PairMatches(call.args, pre))
    => /\ state["tkn0_balance"] = call.args["_rateN"]
       /\ state["tkn1_balance"] = call.args["_rateD"]
       /\ ret.delta["tkn0_balance"] = call.args["_rateN"]
       /\ ret.delta["tkn1_balance"] = call.args["_rateD"]
       /\ ret.delta["cid"] = state["cid"]
       /\ ("cid" \notin DOMAIN call.data => ret.delta["cid"] = pre["cid"])

\* the scenario of the specification: (100, 200) and the event (150, 250)
C2_Witness ==
    /\ EventCall /\ Returns /\ Initialized(pre) /\ PairMatches(call.args, pre)
    /\ pre["tkn0_balance"] = 100 /\ pre["tkn1_balance"] = 200
    /\ state["tkn0_balance"] = 150 /\ state["tkn1_balance"] = 250
    /\ ret.delta["cid"] = "p1"

\* C3: a contract read always wins: after any sequence of update_from_event
\* calls, an update_from_contract call that returns leaves tkn0_balance,
\* tkn1_balance, fee and anchor of the store equal to the values the
\* contract returned in that call, whatever events wrote before.
C3_ContractReadWins ==
    (ContractCall /\ Returns)
    => /\ state["tkn0_balance"] = call.contract.reserveBalances.val[1]
       /\ state["tkn1_balance"] = call.contract.reserveBalances.val[2]
       /\ state["fee"] = call.contract.conversionFee.val
       /\ state["anchor"] = call.contract.anchor.val

\* the contract read overwrote balances an event had written
C3_Witness ==
    /\ ContractCall /\ Returns /\ ncalls = 2
    /\ "tkn0_balance" \in DOMAIN pre
    /\ pre["tkn0_balance"] \in {r[1] : r \in Rates}
    /\ state["tkn0_balance"] # pre["tkn0_balance"]
    /\ state["tkn0_balance"] = call.contract.reserveBalances.val[1]

\* C4, as claimed: every key of the caller-supplied seed is in the delta
\* update_from_event returns, with the value the caller supplied.
C4_SeedPreserved ==
    (EventCall /\ Returns)
    => \A k \in DOMAIN call.data :
          k \in DOMAIN ret.delta /\ ret.delta[k] = call.data[k]

\* C4, amended: every key of the caller-supplied seed other than
\* tkn0_balance and tkn1_balance is in the delta update_from_event
\* returns, with the value the caller supplied; it takes precedence over
\* the value the store held.
C4_SeedPreservedExceptBalances ==
    (EventCall /\ Returns)
    => \A k \in DOMAIN call.data \ {"tkn0_balance", "tkn1_balance"} :
          k \in DOMAIN ret.delta /\ ret.delta[k] = call.data[k]

\* a seed key the store already held with another value
C4_Witness ==
    /\ EventCall /\ Returns
    /\ "cid" \in DOMAIN call.data /\ "cid" \in DOMAIN pre
    /\ pre["cid"] # call.data["cid"]
    /\ ret.delta["cid"] = call.data["cid"]

\* C5: every delta either update operation returns has the keys cid, fee,
\* fee_float, exchange_name, tkn0_balance and tkn1_balance.
C5_DeltaKeys ==
    ((EventCall \/ ContractCall) /\ Returns)
    => {"cid", "fee", "fee_float", "exchange_name", "tkn0_balance", "tkn1_balance"}
          \subseteq DOMAIN ret.delta

\* C6: applying the same token-pair-matching event twice in a row with the
\* same seed is idempotent: the store after the second call is the store
\* after the first.
C6_EventIdempotent ==
    (EventCall /\ prev.outcome = "returned" /\ prev.matched)
    => Returns /\ state = pre

\* C7: update_from_contract is a pure refresh: of two calls in a row whose
\* contract reads give the same results, the second returns the delta the
\* first returned and leaves the store as the first left it.
C7_ContractPureRefresh ==
    (ContractCall /\ prev.outcome = "returned")
    => Returns /\ ret.delta = prev.delta /\ state = pre

\* the second of two such calls, on a store the first one changed
C7_Witness ==
    /\ ContractCall /\ prev.outcome = "returned" /\ Returns
    /\ ncalls = 2
    /\ state["tkn0_balance"] = 200 /\ state["anchor"] = "0xAnchor2"

\* C8: on every failure path of update_from_event the store after the call
\* is the store before it.
C8_FailedEventLeavesStore ==
    (EventCall /\ ret.outcome = "KeyError") => state = pre

\* the contract reads the call made, and whether one of them raised
ReadsMade == {ret.reads[i] : i \in 1..Len(ret.reads)}

SomeReadRaised == \E r \in ReadsMade : ~call.contract[r].ok

\* C9: if a contract read update_from_contract makes fails, the call ends
\* in that failure, no read was made twice, none was made after the one
\* that failed, and the store is as it was before the call.
C9_ContractFailureSurfaces ==
    (ContractCall /\ SomeReadRaised)
    => /\ ret.outcome = "ContractCallFailure"
       /\ ret.delta = EmptyDict
       /\ state = pre
       /\ Cardinality(ReadsMade) = Len(ret.reads)
       /\ ~call.contract[ret.reads[Len(ret.reads)]].ok
       /\ \A i \in 1..(Len(ret.reads) - 1) : call.contract[ret.reads[i]].ok

\* the third read failed on a store that differs from what the first two gave
C9_Witness ==
    /\ ContractCall /\ ret.outcome = "ContractCallFailure"
    /\ Len(ret.reads) = 3
    /\ Initialized(pre)
    /\ pre["tkn0_balance"] # call.contract.reserveBalances.val[1]
    /\ pre["fee"] # call.contract.conversionFee.val

\* the store fields an update_from_event call reads after its writes
ReadBack == {IdentityKeys[i] : i \in 1..Len(IdentityKeys)}

\* C10: update_from_event on a store that lacks a field the call reads ends
\* in a KeyError naming the field, with no delta; a delta that is returned
\* holds, for every store field the call read, the value the store or the
\* caller's seed held, never a default.
C10_AbsentFieldIsError ==
    EventCall
    => /\ "tkn0_address" \notin DOMAIN pre
            => ret.outcome = "KeyError" /\ ret.key = "tkn0_address"
                /\ ret.delta = EmptyDict /\ state = pre
       /\ ("tkn0_address" \in DOMAIN pre /\ "tkn1_address" \notin DOMAIN pre)
            => ret.outcome = "KeyError" /\ ret.key = "tkn1_address"
                /\ ret.delta = EmptyDict /\ state = pre
       /\ Returns
            => /\ {"tkn0_address", "tkn1_address"} \subseteq DOMAIN pre
               /\ \A k \in ReadBack :
                    /\ k \in DOMAIN pre \cup DOMAIN call.data
                    /\ ret.delta[k] = IF k \in DOMAIN call.data
                                      THEN call.data[k] ELSE pre[k]
               /\ ~ret.matched => "tkn0_balance" \in DOMAIN pre
       /\ (ret.outcome = "KeyError" /\ ret.key \in StoreKeys)
            => ret.key \notin DOMAIN pre /\ ret.delta = EmptyDict

\* an event handed to a pool whose store was never populated
C10_Witness ==
    /\ EventCall /\ pre = EmptyDict
    /\ ret.outcome = "KeyError" /\ ret.key = "tkn0_address"
    /\ DOMAIN call.args = EventKeys

\* the last call was one of the two update operations
UpdateCall == EventCall \/ ContractCall

\* the event's args hold the four arguments update_from_event reads
WellFormed(args) == EventKeys \subseteq DOMAIN args

\* the store holds key k as it did when the call started, or still lacks it
Kept(k) ==
    IF k \in DOMAIN pre
    THEN k \in DOMAIN state /\ state[k] = pre[k]
    ELSE k \notin DOMAIN state

\* C11, as claimed: the store field named by unique_key(), address, has the
\* same value in every reachable state, whatever calls were made and
\* whatever seed they carried.
C11_AddressStable == Kept("address")

\* C11, amended: the store's address is the same after any sequence of
\* update_from_contract calls and of update_from_event calls whose seed does
\* not carry the key address.
C11_AddressStableUnlessSeeded ==
    "address" \notin DOMAIN call.data => Kept("address")

\* a contract read that changed the store and wrote the address back
C11_Witness ==
    /\ ContractCall /\ Returns /\ state # pre
    /\ ret.delta["address"] = "0xPool" /\ state["address"] = "0xPool"

MatcherCall == call.op = "event_matches_format"

C15_WitnessRefused ==
    /\ MatcherCall /\ ~ret.result
    /\ DOMAIN call.args = EventKeys \ {"_rateN"}

\* C16: right after an update operation returns, the store holds every key
\* of the returned delta with the delta's value.
C16_DeltaAgreesWithStore ==
    (UpdateCall /\ Returns)
    => \A k \in DOMAIN ret.delta :
          k \in DOMAIN state /\ state[k] = ret.delta[k]

\* a seed's cid went to the store and came back in the delta
C16_Witness ==
    /\ EventCall /\ Returns /\ state # pre
    /\ "cid" \in DOMAIN call.data
    /\ pre["cid"] = "p1" /\ ret.delta["cid"] = "seed_cid"

\* C17: an update_from_event call that returns changes no store field
\* other than tkn0_balance, tkn1_balance and the keys of the seed; an
\* update_from_contract call that returns changes no store field other
\* than fee, fee_float, anchor, tkn0_balance and tkn1_balance.
C17_Frame ==
    /\ (EventCall /\ Returns)
         => \A k \in (DOMAIN pre \cup DOMAIN state)
                       \ ({"tkn0_balance", "tkn1_balance"} \cup DOMAIN call.data) :
               Kept(k)
    /\ (ContractCall /\ Returns)
         => \A k \in (DOMAIN pre \cup DOMAIN state)
                       \ {"fee", "fee_float", "anchor", "tkn0_balance", "tkn1_balance"} :
               Kept(k)

\* a contract read on a store whose exchange_name a seed had rewritten
C17_Witness ==
    /\ ContractCall /\ Returns /\ state # pre
    /\ pre["exchange_name"] = "seed_exchange"
    /\ state["exchange_name"] = "seed_exchange"
    /\ state["cid"] = "p1"

\* C18: no call removes a field from the store, and once an
\* update_from_event call has returned, no later update_from_event call
\* with a well-formed event fails.
C18_InitializedAbsorbing ==
    /\ DOMAIN pre \subseteq DOMAIN state
    /\ (EventCall /\ "update_from_event" \in done /\ WellFormed(call.args))
         => Returns

\* the second of two events on a pool that no contract read populated
C18_Witness ==
    /\ EventCall /\ Returns /\ WellFormed(call.args)
    /\ prev.outcome = "returned"
    /\ done = {"update_from_event"}
    /\ pre["anchor"] = "0xSeed"

RaceDone == race.epc = "done" /\ race.cpc = "done"

\* the store after the two calls made one after the other, in either order
SerialEventFirst ==
    update_from_contract(update_from_event(pre, call.args, call.data).state,
                         call.contract).state

SerialContractFirst ==
    update_from_event(update_from_contract(pre, call.contract).state,
                      call.args, call.data).state

=============================================================================
